---- MODULE Spec2Model ----
(***************************************************************************)
(* The POI map editor of gis-city (the edit-capable script, with the       *)
(* read-only viewer static/js/map.js as its simplified variant), as a      *)
(* state machine.                                                          *)
(*                                                                         *)
(* The script is single-threaded and event-driven.  Every action below is  *)
(* one run-to-completion step of the browser's event loop: an event        *)
(* handler from its start to its first suspension at an await (or to its   *)
(* end), or the continuation of a suspended async function from the        *)
(* settling of the promise it awaits to its next suspension.               *)
(*                                                                         *)
(* The backend behind /api/pois is not part of the repository: what a      *)
(* request is answered with is an input, drawn from small sets.            *)
(***************************************************************************)
EXTENDS Integers, Sequences, FiniteSets, TLC

\* ---------------------------------------------------------------- bounds

\* Invocations of the async functions (the submit handler, deletePOI, and
\* loadPOIs at page load) in one run.
MaxTasks == 3
\* Draw gestures completed in one run (L.Draw.Event.CREATED events).
MaxDraws == 1
\* Features of the longest listing of polygons a GET is answered with, one
\* more than the palette has colors.
MaxPolygons == 11
\* Draw gestures completed in one run of the specification of repeated
\* draws.
MaxShapes == 2

\* ------------------------------------------------------------ vocabulary

\* JavaScript's null, and a property that is not there.
Null == [null |-> TRUE]
Absent == "undefined"
\* layer.feature of a shape the user drew: no feature is attached.
NoFeature == [absent |-> TRUE]
\* A Feature's extra-properties mapping, when there is none.
NoMapping == [absent |-> TRUE]
\* An extra-properties mapping, given by its set of keys.
Mapping(keys) == [keys |-> keys]

\* part_000:23-26
polygonColors ==
    << "#FF6B6B", "#4ECDC4", "#45B7D1", "#FFA07A", "#98D8C8",
       "#F7DC6F", "#BB8FCE", "#85C1E2", "#F8B739", "#52B788" >>

\* The properties object of a GeoJSON Feature as GET /api/pois returns it.
Props(id, g, name, type, addr, extra) ==
    [id |-> id, geom_type |-> g, name |-> name, poi_type |-> type,
     address |-> addr, properties |-> extra]

\* A listing the backend may answer with: every dispatch tag of loadPOIs,
\* an unrecognized tag, and every optional property present and absent.
Catalogue ==
    << Props(1, "ST_Polygon", "Park", "green", "1 Main St", Mapping({"area"})),
       Props(2, "ST_Point", Absent, Absent, Absent, NoMapping),
       Props(3, "ST_LineString", "Road", Absent, "Ring", Mapping({})),
       Props(4, "ST_GeometryCollection", "", "", "", NoMapping),
       Props(5, "ST_MultiLineString", Absent, "bridge", Absent,
             Mapping({"a", "b"})) >>

\* How a fetch of GET /api/pois followed by response.json() can end: the
\* fetch rejects, the body does not parse, the parsed object has no features
\* field, or it has one (empty, or the listing).
GetOutcomes ==
    { [kind |-> "GET network error", features |-> <<>>],
      [kind |-> "GET parse error", features |-> <<>>],
      [kind |-> "GET no features field", features |-> <<>>] }
    \cup { [kind |-> "GET features", features |-> fs] :
             fs \in { <<>>, Catalogue } }

\* How a fetch of POST /api/pois followed by response.json() can end.
PostOutcomes ==
    { "POST network error", "POST non-2xx", "POST 2xx unparsable body",
      "POST 2xx json" }

\* How a fetch of DELETE /api/pois/{id} can end.
DeleteOutcomes == { "DELETE network error", "DELETE non-2xx", "DELETE 2xx" }

\* What the user may have typed into the poi-properties field, as sequences
\* of characters: blank, whitespace only, the empty object with and without
\* surrounding whitespace, and the malformed text "{invalid".
PropertiesTexts ==
    { <<>>,
      << " ", " " >>,
      << "{", "}" >>,
      << " ", "{", " ", "}" >>,
      << "{", "i", "n", "v", "a", "l", "i", "d" >> }

\* ----------------------------------------------------------------- state

VARIABLES
    pointLayer,      \* part_000:11  shapes of the point layer group, in order
    lineLayer,       \* part_000:12
    polygonLayer,    \* part_000:13
    drawnItems,      \* part_000:16  the editable overlay group
    currentDrawing,  \* part_000:20  the pending drawn shape, or Null
    colorIndex,      \* part_000:28  the color cursor
    modal,           \* poi-modal is displayed
    poiCount,        \* text of the poi-count element
    view,            \* what the map view was last fitted to
    nDrawn,          \* draw gestures completed so far
    nTasks,          \* invocations of async functions started so far
    tasks,           \* the suspended invocations, by their number
    step             \* the handler step taken last: what ran, and what it did

vars ==
    << pointLayer, lineLayer, polygonLayer, drawnItems, currentDrawing,
       colorIndex, modal, poiCount, view, nDrawn, nTasks, tasks, step >>

\* The state the synchronous code reads and writes, as one value, so that
\* functions called one after the other compose.
St ==
    [pointLayer |-> pointLayer, lineLayer |-> lineLayer,
     polygonLayer |-> polygonLayer, drawnItems |-> drawnItems,
     currentDrawing |-> currentDrawing, colorIndex |-> colorIndex,
     modal |-> modal, poiCount |-> poiCount, view |-> view]

Commit(s) ==
    /\ pointLayer' = s.pointLayer
    /\ lineLayer' = s.lineLayer
    /\ polygonLayer' = s.polygonLayer
    /\ drawnItems' = s.drawnItems
    /\ currentDrawing' = s.currentDrawing
    /\ colorIndex' = s.colorIndex
    /\ modal' = s.modal
    /\ poiCount' = s.poiCount
    /\ view' = s.view

\* A shape on the map.  One rendered by loadPOIs carries its feature, the
\* task whose load rendered it and its place in that load's response; one
\* the user drew carries no feature and the number of its draw gesture.
\* The popup bound to a rendered shape (part_000:117, 145, 161) is
\* createPopupContent of its feature.
Rendered(f, t, i, color) ==
    [feature |-> f, by |-> t, n |-> i, color |-> color]
Drawn(n) ==
    [feature |-> NoFeature, by |-> 0, n |-> n, color |-> "drawn"]

\* An invocation of an async function.  pc is the await it is suspended at,
\* or "done"; arg is the POST body of a submit or
\* the poiId of a deletePOI; requests lists the requests it has sent.
Task(kind, pc, arg, requests) ==
    [kind |-> kind, pc |-> pc, arg |-> arg, requests |-> requests]
NoArg == [none |-> TRUE]
\* An invocation that has ended.
Done(task) == [task EXCEPT !.pc = "done"]

\* One run-to-completion step: the handler that ran, the invocation it
\* belongs to (0: none), what it reacted to, and in order what it did that
\* is visible outside it (calls that change the map, requests, dialogs).
Step(handler, t, on, did) ==
    [handler |-> handler, task |-> t, on |-> on, did |-> did]

Remove(seq, x) == SelectSeq(seq, LAMBDA e : e # x)

\* The text of the poi-count element: a fixed text, or `Total POIs: n`.
StatusText(text) == [text |-> text]
TotalText(n) == [text |-> "Total POIs: ", n |-> n]
\* The view L.map(...).setView gives the map at construction (part_000:2).
InitialView == [center |-> "Hunan", zoom |-> "initial"]

\* ------------------------------------------------- the synchronous code

\* JavaScript truthiness of a string-valued property: absent and "" are falsy.
Truthy(v) == v # Absent /\ v # ""

\* createPopupContent without the tests on poi_type and address.
createPopupContent_NoTests(feature) ==
    LET props == feature
        extra == props.properties
    IN  << [line |-> "h3",
            text |-> IF Truthy(props.name) THEN props.name ELSE "Unnamed POI"] >>
        \o << [line |-> "Type", text |-> props.poi_type] >>
        \o << [line |-> "Address", text |-> props.address] >>
        \o << [line |-> "ID", id |-> props.id] >>
        \o << [line |-> "Geometry", text |-> props.geom_type] >>
        \o (IF extra # NoMapping /\ Cardinality(extra.keys) > 0
              THEN << [line |-> "Additional Properties", keys |-> extra.keys] >>
              ELSE <<>>)

\* part_000:33-58.  The markup, as the sequence of its pieces.
createPopupContent(feature) ==
    LET props == feature
        extra == props.properties
    IN  << [line |-> "h3",
            text |-> IF Truthy(props.name) THEN props.name ELSE "Unnamed POI"] >>
        \o (IF Truthy(props.poi_type)
              THEN << [line |-> "Type", text |-> props.poi_type] >> ELSE <<>>)
        \o (IF Truthy(props.address)
              THEN << [line |-> "Address", text |-> props.address] >> ELSE <<>>)
        \o << [line |-> "ID", id |-> props.id] >>
        \o << [line |-> "Geometry", text |-> props.geom_type] >>
        \o (IF extra # NoMapping /\ Cardinality(extra.keys) > 0
              THEN << [line |-> "Additional Properties", keys |-> extra.keys] >>
              ELSE <<>>)

\* getPolygonColor without the modulo: past the end of the palette it stays
\* on the last color.
getPolygonColor_NoWrap(s) ==
    [color |-> polygonColors[IF s.colorIndex < Len(polygonColors)
                               THEN s.colorIndex + 1
                               ELSE Len(polygonColors)],
     st |-> [s EXCEPT !.colorIndex = @ + 1]]

\* part_000:63-67.  The color returned and the state after the call.
getPolygonColor(s) ==
    [color |-> polygonColors[(s.colorIndex % Len(polygonColors)) + 1],
     st |-> [s EXCEPT !.colorIndex = @ + 1]]

\* part_000:72-81.  fillColor and color are both the color drawn.
getPolygonStyle(s) ==
    LET c == getPolygonColor(s)
    IN  [style |-> c.color, st |-> c.st]

\* part_000:254-257
openModal(s) == [s EXCEPT !.modal = TRUE]

\* closeModal without drawnItems.removeLayer: the pending shape stays in the
\* overlay.
closeModal_KeepLayer(s) ==
    [s EXCEPT !.modal = FALSE, !.currentDrawing = Null]

\* part_000:262-271.  form.reset() empties the fields, whose text is an input
\* of the next submit.
closeModal(s) ==
    LET closed == [s EXCEPT !.modal = FALSE]
    IN  IF s.currentDrawing # Null
          THEN [closed EXCEPT !.drawnItems = Remove(@, s.currentDrawing),
                              !.currentDrawing = Null]
          ELSE closed

\* What closeModal shows of itself in state s.
closeModalDid(s) ==
    IF s.currentDrawing # Null
      THEN << "closeModal", "removeLayer" >> ELSE << "closeModal" >>

\* clearLayers without drawnItems.clearLayers().
clearLayers_KeepOverlay(s) ==
    [s EXCEPT !.pointLayer = <<>>, !.lineLayer = <<>>, !.polygonLayer = <<>>,
              !.colorIndex = 0]

\* clearLayers without the reset of colorIndex.
clearLayers_NoReset(s) ==
    [s EXCEPT !.pointLayer = <<>>, !.lineLayer = <<>>, !.polygonLayer = <<>>,
              !.drawnItems = <<>>]

\* part_000:378-384
clearLayers(s) ==
    [s EXCEPT !.pointLayer = <<>>, !.lineLayer = <<>>, !.polygonLayer = <<>>,
              !.drawnItems = <<>>, !.colorIndex = 0]

\* The dispatch of part_000:105-127 on the geom_type tag.
IsPoint(f) == f.geom_type = "ST_Point"
IsLine(f) == f.geom_type = "ST_LineString" \/ f.geom_type = "ST_MultiLineString"
\* The dispatch of the fuller script with the two line tags left out.
LayerOf_NoLines(f) == IF IsPoint(f) THEN "points" ELSE "polygons"

LayerOf(f) ==
    IF IsPoint(f) THEN "points" ELSE IF IsLine(f) THEN "lines" ELSE "polygons"

\* map.js:93-103: the simplified script sorts the features of a response
\* into two lists.
classifySimplified(features) ==
    [points |-> SelectSeq(features, IsPoint),
     polygons |-> SelectSeq(features, LAMBDA f : ~IsPoint(f))]

\* The features of a response with their places in it.
Indexed(fs) == [i \in 1..Len(fs) |-> [f |-> fs[i], i |-> i]]

\* part_000:108-124: a line is rendered while the response is classified.
RECURSIVE RenderLines(_, _, _)
RenderLines(s, es, t) ==
    IF es = <<>> THEN s
    ELSE LET e == Head(es)
             line == Rendered(e.f, t, e.i, "#00ff00")
         IN  RenderLines([s EXCEPT !.lineLayer = Append(@, line),
                                   !.drawnItems = Append(@, line)],
                         Tail(es), t)

\* part_000:131-153
RECURSIVE RenderPoints(_, _, _)
RenderPoints(s, es, t) ==
    IF es = <<>> THEN s
    ELSE LET e == Head(es)
             marker == Rendered(e.f, t, e.i, "#3388ff")
         IN  RenderPoints([s EXCEPT !.pointLayer = Append(@, marker),
                                    !.drawnItems = Append(@, marker)],
                          Tail(es), t)

\* part_000:156-169: L.geoJSON calls the style function once for the feature.
RECURSIVE RenderPolygons(_, _, _)
RenderPolygons(s, es, t) ==
    IF es = <<>> THEN s
    ELSE LET e == Head(es)
             styled == getPolygonStyle(s)
             polygon == Rendered(e.f, t, e.i, styled.style)
         IN  RenderPolygons([styled.st EXCEPT !.polygonLayer = Append(@, polygon),
                                              !.drawnItems = Append(@, polygon)],
                            Tail(es), t)

\* part_000:172-177: the bounds of the three layer groups, given by the ids
\* of the features in them; bounds over no shape are not valid.
FitBounds(s) ==
    LET all == s.pointLayer \o s.lineLayer \o s.polygonLayer
    IN  IF all # <<>>
          THEN [s EXCEPT !.view =
                   [fitted |-> { all[i].feature.id : i \in 1..Len(all) }]]
          ELSE s

\* loadPOIs emptying the layer groups before it fetches, so that a failed
\* fetch leaves the map empty.
loadPOIsBody_ClearOnError(s, t, outcome) ==
    IF outcome.kind \in {"GET network error", "GET parse error"}
      THEN [s EXCEPT !.poiCount = StatusText("Error loading POIs"),
                     !.pointLayer = <<>>, !.lineLayer = <<>>,
                     !.polygonLayer = <<>>]
    ELSE IF outcome.kind = "GET no features field" \/ Len(outcome.features) = 0
      THEN [s EXCEPT !.poiCount = StatusText("No POIs found in database")]
    ELSE LET es == Indexed(outcome.features)
             counted == [s EXCEPT !.poiCount =
                            TotalText(Len(outcome.features))]
             lines == RenderLines(counted,
                                  SelectSeq(es, LAMBDA e : IsLine(e.f)), t)
             points == RenderPoints(lines,
                                    SelectSeq(es, LAMBDA e : IsPoint(e.f)), t)
             polygons == RenderPolygons(points,
                           SelectSeq(es, LAMBDA e : LayerOf(e.f) = "polygons"), t)
         IN  FitBounds(polygons)

\* loadPOIs dropping a response that arrives when shapes are already on the
\* map.
loadPOIsBody_DropWhenRendered(s, t, outcome) ==
    IF outcome.kind \in {"GET network error", "GET parse error"}
      THEN [s EXCEPT !.poiCount = StatusText("Error loading POIs")]
    ELSE IF outcome.kind = "GET no features field" \/ Len(outcome.features) = 0
      THEN [s EXCEPT !.poiCount = StatusText("No POIs found in database")]
    ELSE IF s.pointLayer \o s.lineLayer \o s.polygonLayer # <<>>
      THEN s
    ELSE LET es == Indexed(outcome.features)
             counted == [s EXCEPT !.poiCount =
                            TotalText(Len(outcome.features))]
             lines == RenderLines(counted,
                                  SelectSeq(es, LAMBDA e : IsLine(e.f)), t)
             points == RenderPoints(lines,
                                    SelectSeq(es, LAMBDA e : IsPoint(e.f)), t)
             polygons == RenderPolygons(points,
                           SelectSeq(es, LAMBDA e : LayerOf(e.f) = "polygons"), t)
         IN  FitBounds(polygons)

\* loadPOIs resetting the view to the initial one when there is nothing to
\* show.
loadPOIsBody_EmptyResetsView(s, t, outcome) ==
    IF outcome.kind \in {"GET network error", "GET parse error"}
      THEN [s EXCEPT !.poiCount = StatusText("Error loading POIs")]
    ELSE IF outcome.kind = "GET no features field" \/ Len(outcome.features) = 0
      THEN [s EXCEPT !.poiCount = StatusText("No POIs found in database"),
                     !.view = InitialView]
    ELSE LET es == Indexed(outcome.features)
             counted == [s EXCEPT !.poiCount =
                            TotalText(Len(outcome.features))]
             lines == RenderLines(counted,
                                  SelectSeq(es, LAMBDA e : IsLine(e.f)), t)
             points == RenderPoints(lines,
                                    SelectSeq(es, LAMBDA e : IsPoint(e.f)), t)
             polygons == RenderPolygons(points,
                           SelectSeq(es, LAMBDA e : LayerOf(e.f) = "polygons"), t)
         IN  FitBounds(polygons)

\* part_000:87-189: loadPOIs from the settling of its fetch and of
\* response.json() (no code runs between the two) to its end, for the load
\* of task t.  Both awaits are inside the try block.
loadPOIsBody(s, t, outcome) ==
    IF outcome.kind \in {"GET network error", "GET parse error"}
      THEN [s EXCEPT !.poiCount = StatusText("Error loading POIs")]
    ELSE IF outcome.kind = "GET no features field" \/ Len(outcome.features) = 0
      THEN [s EXCEPT !.poiCount = StatusText("No POIs found in database")]
    ELSE LET es == Indexed(outcome.features)
             counted == [s EXCEPT !.poiCount =
                            TotalText(Len(outcome.features))]
             lines == RenderLines(counted,
                                  SelectSeq(es, LAMBDA e : IsLine(e.f)), t)
             points == RenderPoints(lines,
                                    SelectSeq(es, LAMBDA e : IsPoint(e.f)), t)
             polygons == RenderPolygons(points,
                           SelectSeq(es, LAMBDA e : LayerOf(e.f) = "polygons"), t)
         IN  FitBounds(polygons)

\* String.prototype.trim on a sequence of characters.
RECURSIVE TrimStart(_)
TrimStart(text) ==
    IF text # <<>> /\ Head(text) = " " THEN TrimStart(Tail(text)) ELSE text
RECURSIVE TrimEnd(_)
TrimEnd(text) ==
    IF text # <<>> /\ text[Len(text)] = " "
      THEN TrimEnd(SubSeq(text, 1, Len(text) - 1)) ELSE text
Trim(text) == TrimEnd(TrimStart(text))

\* A parse that throws on nothing.
JSONParse_Lenient(text) == [ok |-> TRUE, value |-> Mapping({})]

\* JSON.parse on the texts over the characters of PropertiesTexts: of these
\* the JSON documents are the empty object, with whitespace allowed around
\* and between its braces.  ok is FALSE where JSON.parse throws.
JSONParse(text) ==
    LET t == Trim(text)
        object == /\ Len(t) >= 2
                  /\ t[1] = "{"
                  /\ t[Len(t)] = "}"
                  /\ \A i \in 2..(Len(t) - 1) : t[i] = " "
    IN  [ok |-> object, value |-> Mapping({})]

\* ------------------------------------------------------------- handlers
\* Each handler is a function of the state it runs in, giving the state it
\* leaves (st), what it did (did) and, for an async function, the record of
\* its invocation (task).

\* part_000:234-239
onDrawCreated(s, n) ==
    LET layer == Drawn(n)
    IN  openModal([s EXCEPT !.currentDrawing = layer,
                            !.drawnItems = Append(@, layer)])

\* The submit handler giving up the pending drawing when it sends the POST,
\* so that a further submit finds none.
submitHandler_TakesDrawing(s, text) ==
    IF s.currentDrawing = Null
      THEN [st |-> s, task |-> Task("submit", "done", NoArg, <<>>),
            did |-> << "alert: No geometry drawn" >>]
    ELSE IF Trim(text) # <<>> /\ ~JSONParse(text).ok
      THEN [st |-> s, task |-> Task("submit", "done", NoArg, <<>>),
            did |-> << "alert: Invalid JSON in properties field" >>]
    ELSE [st |-> [s EXCEPT !.currentDrawing = Null],
          task |-> Task("submit", "fetch POST",
                        [geometry |-> s.currentDrawing.n,
                         properties |-> IF Trim(text) # <<>>
                                          THEN JSONParse(text).value ELSE Null],
                        << "POST /api/pois" >>),
          did |-> << "POST /api/pois" >>]

\* The submit handler with the properties parsed before the pending drawing
\* is looked for.
submitHandler_ParseFirst(s, text) ==
    IF Trim(text) # <<>> /\ ~JSONParse(text).ok
      THEN [st |-> s, task |-> Task("submit", "done", NoArg, <<>>),
            did |-> << "alert: Invalid JSON in properties field" >>]
    ELSE IF s.currentDrawing = Null
      THEN [st |-> s, task |-> Task("submit", "done", NoArg, <<>>),
            did |-> << "alert: No geometry drawn" >>]
    ELSE [st |-> s,
          task |-> Task("submit", "fetch POST",
                        [geometry |-> s.currentDrawing.n,
                         properties |-> IF Trim(text) # <<>>
                                          THEN JSONParse(text).value ELSE Null],
                        << "POST /api/pois" >>),
          did |-> << "POST /api/pois" >>]

\* part_000:276-321: the submit handler up to its await of the POST.  The
\* name, type and address fields are copied into the body as they are and
\* decide nothing; the body is given by its geometry and properties.
submitHandler(s, text) ==
    IF s.currentDrawing = Null
      THEN [st |-> s, task |-> Task("submit", "done", NoArg, <<>>),
            did |-> << "alert: No geometry drawn" >>]
    ELSE IF Trim(text) # <<>> /\ ~JSONParse(text).ok
      THEN [st |-> s, task |-> Task("submit", "done", NoArg, <<>>),
            did |-> << "alert: Invalid JSON in properties field" >>]
    ELSE [st |-> s,
          task |-> Task("submit", "fetch POST",
                        [geometry |-> s.currentDrawing.n,
                         properties |-> IF Trim(text) # <<>>
                                          THEN JSONParse(text).value ELSE Null],
                        << "POST /api/pois" >>),
          did |-> << "POST /api/pois" >>]

\* The submit handler dropping the answer to its POST when the drawing is
\* no longer pending.
submitAfterPost_DropIfCancelled(s, task, outcome) ==
    IF outcome = "POST 2xx json" /\ s.currentDrawing # Null
      THEN [st |-> clearLayers([closeModal(s) EXCEPT !.currentDrawing = Null]),
            task |-> [task EXCEPT !.pc = "fetch GET",
                                  !.requests = Append(@, "GET /api/pois")],
            did |-> << "closeModal", "clearLayers", "GET /api/pois" >>]
    ELSE IF outcome = "POST 2xx json"
      THEN [st |-> s, task |-> Done(task), did |-> <<>>]
      ELSE [st |-> s,
            task |-> Done(task),
            did |-> << "alert: Failed to create POI" >>]

\* The submit handler reloading without clearLayers().
submitAfterPost_NoClear(s, task, outcome) ==
    IF outcome = "POST 2xx json"
      THEN [st |-> [closeModal(s) EXCEPT !.currentDrawing = Null],
            task |-> [task EXCEPT !.pc = "fetch GET",
                                  !.requests = Append(@, "GET /api/pois")],
            did |-> << "closeModal", "GET /api/pois" >>]
      ELSE [st |-> s,
            task |-> Done(task),
            did |-> << "alert: Failed to create POI" >>]

\* The submit handler closing the modal in its catch block too.
submitAfterPost_CloseOnFailure(s, task, outcome) ==
    IF outcome = "POST 2xx json"
      THEN [st |-> clearLayers([closeModal(s) EXCEPT !.currentDrawing = Null]),
            task |-> [task EXCEPT !.pc = "fetch GET",
                                  !.requests = Append(@, "GET /api/pois")],
            did |-> << "closeModal", "clearLayers", "GET /api/pois" >>]
      ELSE [st |-> closeModal(s),
            task |-> Done(task),
            did |-> << "closeModal", "alert: Failed to create POI" >>]

\* The submit handler alerting success before it awaits the reload.
submitAfterPost_AlertEarly(s, task, outcome) ==
    IF outcome = "POST 2xx json"
      THEN [st |-> clearLayers([closeModal(s) EXCEPT !.currentDrawing = Null]),
            task |-> [task EXCEPT !.pc = "fetch GET",
                                  !.requests = Append(@, "GET /api/pois")],
            did |-> << "closeModal", "clearLayers", "GET /api/pois",
                       "alert: POI created successfully!" >>]
      ELSE [st |-> s,
            task |-> Done(task),
            did |-> << "alert: Failed to create POI" >>]

\* part_000:323-343: the submit handler from the settling of the POST (and,
\* for a 2xx answer, of response.json()) to its await of loadPOIs, whose
\* fetch is issued in the same step (part_000:88).
submitAfterPost(s, task, outcome) ==
    IF outcome = "POST 2xx json"
      THEN [st |-> clearLayers([closeModal(s) EXCEPT !.currentDrawing = Null]),
            task |-> [task EXCEPT !.pc = "fetch GET",
                                  !.requests = Append(@, "GET /api/pois")],
            did |-> << "closeModal", "clearLayers", "GET /api/pois" >>]
      ELSE [st |-> s,
            task |-> Done(task),
            did |-> << "alert: Failed to create POI" >>]

\* layer.feature && layer.feature.properties.id (part_000:245)
HasBackendId(layer) == layer.feature # NoFeature /\ layer.feature.id # 0

\* deletePOI without its prompt.
deletePOI_NoConfirm(poiId, confirmed) ==
    Task("deletePOI", "fetch DELETE", [poiId |-> poiId],
         << "DELETE /api/pois/{id}" >>)

\* part_000:349-357: deletePOI up to its await of the DELETE; it ends at
\* once when the user declines the prompt.
deletePOI(poiId, confirmed) ==
    IF ~confirmed
      THEN Done(Task("deletePOI", "done", [poiId |-> poiId], <<>>))
      ELSE Task("deletePOI", "fetch DELETE", [poiId |-> poiId],
                << "DELETE /api/pois/{id}" >>)

\* part_000:242-249: the invocations of deletePOI the DELETED handler starts
\* for the removed layers, in order; confirmed holds the layers whose prompt
\* the user accepts.
RECURSIVE onDrawDeleted(_, _)
onDrawDeleted(layers, confirmed) ==
    IF layers = <<>> THEN <<>>
    ELSE LET layer == Head(layers)
             rest == onDrawDeleted(Tail(layers), confirmed)
         IN  IF HasBackendId(layer)
               THEN << deletePOI(layer.feature.id, layer \in confirmed) >> \o rest
               ELSE rest

\* deletePOI reloading after a failed DELETE too.
deleteAfterFetch_ReloadOnFailure(s, task, outcome) ==
    IF outcome = "DELETE 2xx"
      THEN [st |-> clearLayers(s),
            task |-> [task EXCEPT !.pc = "fetch GET",
                                  !.requests = Append(@, "GET /api/pois")],
            did |-> << "clearLayers", "GET /api/pois" >>]
      ELSE [st |-> clearLayers(s),
            task |-> [task EXCEPT !.pc = "fetch GET",
                                  !.requests = Append(@, "GET /api/pois")],
            did |-> << "alert: Failed to delete POI", "clearLayers",
                       "GET /api/pois" >>]

\* part_000:359-372: deletePOI from the settling of the DELETE to its await
\* of loadPOIs.
deleteAfterFetch(s, task, outcome) ==
    IF outcome = "DELETE 2xx"
      THEN [st |-> clearLayers(s),
            task |-> [task EXCEPT !.pc = "fetch GET",
                                  !.requests = Append(@, "GET /api/pois")],
            did |-> << "clearLayers", "GET /api/pois" >>]
      ELSE [st |-> s,
            task |-> Done(task),
            did |-> << "alert: Failed to delete POI" >>]

\* What loadPOIsBody shows of itself.
loadPOIsDid(outcome) ==
    IF outcome.kind \in {"GET network error", "GET parse error"}
      THEN << "status: Error loading POIs" >>
    ELSE IF outcome.kind = "GET no features field" \/ Len(outcome.features) = 0
      THEN << "status: No POIs found in database" >>
    ELSE << "status: Total POIs", "render", "fitBounds" >>

\* What the caller of loadPOIs does once loadPOIs has ended: the submit
\* handler alerts (part_000:338); deletePOI (part_000:367) and the page-load
\* call (part_000:395) do nothing more.  loadPOIs catches what its fetch
\* throws (part_000:186), so the caller always resumes after its await.
afterLoad(task, outcome) ==
    [task |-> Done(task),
     did |-> IF task.kind = "submit"
               THEN << "alert: POI created successfully!" >> ELSE <<>>]

\* -------------------------------------------------------------- actions

\* The sets of at most k elements of the set S of numbers.
RECURSIVE SubsetsUpTo(_, _)
SubsetsUpTo(S, k) ==
    IF k = 0 \/ S = {} THEN { {} }
    ELSE LET x == CHOOSE y \in S : \A z \in S : y <= z
             rest == S \ {x}
         IN  SubsetsUpTo(rest, k)
               \cup { P \cup {x} : P \in SubsetsUpTo(rest, k - 1) }

NoInput == [none |-> TRUE]

\* The suspended invocations once those of `started` have begun, numbered
\* from n + 1 on: one that ended at once is not suspended.
Started(suspended, n, started) ==
    LET new == { k \in 1..Len(started) : started[k].pc # "done" }
    IN  [t \in DOMAIN suspended \cup { n + k : k \in new } |->
           IF t \in DOMAIN suspended THEN suspended[t] ELSE started[t - n]]

\* The suspended invocations once invocation t has run on and become task.
Resumed(suspended, t, task) ==
    IF task.pc = "done"
      THEN [u \in DOMAIN suspended \ {t} |-> suspended[u]]
      ELSE [suspended EXCEPT ![t] = task]

\* The state after construction (part_000:1-28, 395): empty groups, nothing
\* pending, and the page-load loadPOIs suspended at its fetch.
Init ==
    /\ pointLayer = <<>>
    /\ lineLayer = <<>>
    /\ polygonLayer = <<>>
    /\ drawnItems = <<>>
    /\ currentDrawing = Null
    /\ colorIndex = 0
    /\ modal = FALSE
    /\ poiCount = StatusText("")
    /\ view = InitialView
    /\ nDrawn = 0
    /\ nTasks = 1
    /\ tasks = Started(<<>>, 0,
                       << Task("loadPOIs", "fetch GET", NoArg,
                               << "GET /api/pois" >>) >>)
    /\ step = Step("page load", 1, NoInput, << "GET /api/pois" >>)

\* The user completes a draw gesture, one of at most limit in a run:
\* L.Draw.Event.CREATED.  The handler does not look at the modal or at
\* currentDrawing, and the draw control stays on the map while the modal is
\* shown.
DrawCreatedUpTo(limit) ==
    /\ nDrawn < limit
    /\ nDrawn' = nDrawn + 1
    /\ Commit(onDrawCreated(St, nDrawn + 1))
    /\ step' = Step("draw:created", 0, NoInput, << "openModal" >>)
    /\ UNCHANGED << nTasks, tasks >>

DrawCreated == DrawCreatedUpTo(MaxDraws)

\* The user dismisses the modal.
Cancel ==
    /\ Commit(closeModal(St))
    /\ step' = Step("dismiss", 0, NoInput, closeModalDid(St))
    /\ UNCHANGED << nDrawn, nTasks, tasks >>

\* part_000:387-392: a click anywhere in the window.
WindowClick ==
    \E target \in {"poi-modal", "elsewhere"} :
        /\ Commit(IF target = "poi-modal" THEN closeModal(St) ELSE St)
        /\ step' = Step("window.onclick", 0, [target |-> target],
                        IF target = "poi-modal" THEN closeModalDid(St) ELSE <<>>)
        /\ UNCHANGED << nDrawn, nTasks, tasks >>

\* A submit event on poi-form, with the properties field holding text.
Submit ==
    \E text \in PropertiesTexts :
        LET r == submitHandler(St, text)
        IN  /\ nTasks < MaxTasks
            /\ Commit(r.st)
            /\ nTasks' = nTasks + 1
            /\ tasks' = Started(tasks, nTasks, << r.task >>)
            /\ step' = Step("submit", nTasks + 1, [text |-> text], r.did)
            /\ UNCHANGED nDrawn

\* The POST of submit invocation t settles; pending is the drawing the
\* handler finds pending when it resumes.
PostSettles ==
    \E t \in DOMAIN tasks, outcome \in PostOutcomes :
        /\ tasks[t].pc = "fetch POST"
        /\ LET r == submitAfterPost(St, tasks[t], outcome)
           IN  /\ Commit(r.st)
               /\ tasks' = Resumed(tasks, t, r.task)
               /\ step' = Step("submit: POST settled", t,
                               [outcome |-> outcome, pending |-> currentDrawing],
                               r.did)
        /\ UNCHANGED << nDrawn, nTasks >>

\* The user removes shapes of the overlay with the edit tool and saves:
\* the tool takes them out of drawnItems and fires L.Draw.Event.DELETED.
\* The user removes any shapes, as long as there is room for the
\* invocations of deletePOI, and answers each prompt either way.
DrawDeleted ==
    LET room == MaxTasks - nTasks
        positions == 1..Len(drawnItems)
        persisted == { p \in positions : drawnItems[p].feature # NoFeature }
    IN  \E PI \in SubsetsUpTo(persisted, room),
           PN \in SUBSET (positions \ persisted) :
        LET P == PI \cup PN
            removed == SelectSeq(Indexed(drawnItems), LAMBDA e : e.i \in P)
            layers == [k \in 1..Len(removed) |-> removed[k].f]
            kept == SelectSeq(Indexed(drawnItems), LAMBDA e : e.i \notin P)
        IN  /\ P # {}
            /\ \E C \in SUBSET PI :
                 LET started == onDrawDeleted(layers, { drawnItems[p] : p \in C })
                 IN  /\ drawnItems' = [k \in 1..Len(kept) |-> kept[k].f]
                     /\ nTasks' = nTasks + Len(started)
                     /\ tasks' = Started(tasks, nTasks, started)
                     /\ step' = Step("draw:deleted", 0,
                                     [layers |-> layers,
                                      accepted |-> { drawnItems[p] : p \in C }],
                                     [k \in 1..Len(SelectSeq(started,
                                            LAMBDA d : d.pc = "fetch DELETE")) |->
                                        "DELETE /api/pois/{id}"])
            /\ UNCHANGED << pointLayer, lineLayer, polygonLayer, currentDrawing,
                            colorIndex, modal, poiCount, view, nDrawn >>

\* The DELETE of deletePOI invocation t settles.
DeleteSettles ==
    \E t \in DOMAIN tasks, outcome \in DeleteOutcomes :
        /\ tasks[t].pc = "fetch DELETE"
        /\ LET r == deleteAfterFetch(St, tasks[t], outcome)
           IN  /\ Commit(r.st)
               /\ tasks' = Resumed(tasks, t, r.task)
               /\ step' = Step("deletePOI: DELETE settled", t,
                               [outcome |-> outcome], r.did)
        /\ UNCHANGED << nDrawn, nTasks >>

\* The GET of the loadPOIs of invocation t settles, with an outcome among
\* outcomes: loadPOIs runs to its end and its caller resumes.
GetSettlesFrom(outcomes) ==
    \E t \in DOMAIN tasks, outcome \in outcomes :
        /\ tasks[t].pc = "fetch GET"
        /\ Commit(loadPOIsBody(St, t, outcome))
        /\ LET r == afterLoad(tasks[t], outcome)
           IN  /\ tasks' = Resumed(tasks, t, r.task)
               /\ step' = Step("loadPOIs: GET settled", t,
                               [outcome |-> outcome, caller |-> tasks[t].kind],
                               loadPOIsDid(outcome) \o r.did)
        /\ UNCHANGED << nDrawn, nTasks >>

GetSettles == GetSettlesFrom(GetOutcomes)

Next ==
    \/ DrawCreated
    \/ Cancel
    \/ WindowClick
    \/ Submit
    \/ PostSettles
    \/ DrawDeleted
    \/ DeleteSettles
    \/ GetSettles

Spec == Init /\ [][Next]_vars

\* The same page with a backend that holds polygons only: a GET is answered
\* with the first of them or with the first MaxPolygons of them.
PolygonListing(n) ==
    [i \in 1..n |-> Props(i, "ST_Polygon", Absent, Absent, Absent, NoMapping)]

PaletteOutcomes ==
    { [kind |-> "GET features", features |-> PolygonListing(n)] :
        n \in {1, MaxPolygons} }

GetSettlesPalette == GetSettlesFrom(PaletteOutcomes)

NextPalette ==
    \/ DrawCreated
    \/ Cancel
    \/ Submit
    \/ PostSettles
    \/ GetSettlesPalette

SpecPalette == Init /\ [][NextPalette]_vars

\* part_000:117, 150, 161: the popup bound to a rendered shape is built from
\* the feature the shape was rendered for.
popupOf(shape) == createPopupContent(shape.feature)

\* The same page with a backend that holds one feature, whose optional
\* properties are each absent, empty or given.
OptionalTexts(given) == { Absent, "", given }

PopupFeatures ==
    { Props(1, g, name, type, addr, extra) :
        g \in { "ST_Point", "ST_LineString", "ST_Polygon" },
        name \in OptionalTexts("Park"),
        type \in OptionalTexts("green"),
        addr \in OptionalTexts("1 Main St"),
        extra \in { NoMapping, Mapping({}), Mapping({"area"}) } }

PopupOutcomes ==
    { [kind |-> "GET features", features |-> << f >>] : f \in PopupFeatures }

GetSettlesPopup == GetSettlesFrom(PopupOutcomes)

NextPopup == GetSettlesPopup

SpecPopup == Init /\ [][NextPopup]_vars

\* The same page with a user who completes up to MaxShapes draw gestures and
\* deletes nothing.
DrawCreatedAgain == DrawCreatedUpTo(MaxShapes)

NextDraws ==
    \/ DrawCreatedAgain
    \/ Cancel
    \/ WindowClick
    \/ Submit
    \/ PostSettles
    \/ GetSettles

SpecDraws == Init /\ [][NextDraws]_vars

\* ---------------------------------------------------------------- claims

Count(seq, x) == Cardinality({ i \in DOMAIN seq : seq[i] = x })
First(seq, x) == CHOOSE i \in DOMAIN seq : seq[i] = x /\ \A j \in 1..(i - 1) : seq[j] # x
In(seq, x) == \E i \in DOMAIN seq : seq[i] = x

GroupsEmpty ==
    /\ pointLayer = <<>>
    /\ lineLayer = <<>>
    /\ polygonLayer = <<>>
    /\ drawnItems = <<>>

\* The step just taken cleared once, then issued one GET for invocation t,
\* which now awaits it, in the cleared state.
ReloadedOnce(t) ==
    /\ Count(step.did, "clearLayers") = 1
    /\ Count(step.did, "GET /api/pois") = 1
    /\ First(step.did, "clearLayers") < First(step.did, "GET /api/pois")
    /\ GroupsEmpty
    /\ colorIndex = 0
    /\ t \in DOMAIN tasks
    /\ tasks[t].pc = "fetch GET"
    /\ Count(tasks[t].requests, "GET /api/pois") = 1

\* C1, as stated: whenever the POST of a submit is answered with a 2xx
\* status, the handler clears once and then issues exactly one GET.
C1_ReloadAfterAny2xx ==
    (step.handler = "submit: POST settled"
       /\ step.on.outcome \in {"POST 2xx json", "POST 2xx unparsable body"})
    => ReloadedOnce(step.task)

\* C1, amended: whenever the POST of a submit is answered with a 2xx status
\* and a body that parses as JSON, the handler clears once and then issues
\* exactly one GET for that submit; no submit ever issues a second GET, and
\* the end of the reload issues no request and clears nothing.
C1_ReloadOnceAfterCreated ==
    /\ (step.handler = "submit: POST settled"
          /\ step.on.outcome = "POST 2xx json")
       => ReloadedOnce(step.task)
    /\ \A t \in DOMAIN tasks :
          tasks[t].kind = "submit"
            => Count(tasks[t].requests, "GET /api/pois") <= 1
    /\ step.handler = "loadPOIs: GET settled"
       => /\ Count(step.did, "GET /api/pois") = 0
          /\ Count(step.did, "clearLayers") = 0
          /\ step.task \notin DOMAIN tasks

C1_Witness ==
    /\ step.handler = "submit: POST settled"
    /\ step.on.outcome = "POST 2xx json"
    /\ nTasks >= 2

\* The removed layers that carry a backend identifier.
CarriesId(layer) == layer.feature # NoFeature
IdLayers(layers) == SelectSeq(layers, CarriesId)

\* C2, as stated: a DELETED event sends as many DELETE requests as it
\* removed shapes that carry a backend identifier.
C2_DeletePerIdentifier ==
    step.handler = "draw:deleted"
    => Count(step.did, "DELETE /api/pois/{id}") = Len(IdLayers(step.on.layers))

\* C2, amended: a DELETED event sends one DELETE request, to the identifier
\* of the shape, for each removed shape that carries a backend identifier
\* and whose confirmation prompt the user accepts, and none for a shape
\* whose prompt is declined or that carries no identifier.
C2_DeletePerAcceptedIdentifier ==
    step.handler = "draw:deleted"
    => LET ids == IdLayers(step.on.layers)
           m == Len(ids)
           accepted == { k \in 1..m : ids[k] \in step.on.accepted }
       IN  /\ Count(step.did, "DELETE /api/pois/{id}") = Cardinality(accepted)
           /\ Len(step.did) = Cardinality(accepted)
           /\ \A k \in 1..m :
                LET t == nTasks - m + k
                IN  IF k \in accepted
                      THEN /\ t \in DOMAIN tasks
                           /\ tasks[t] =
                                Task("deletePOI", "fetch DELETE",
                                     [poiId |-> ids[k].feature.id],
                                     << "DELETE /api/pois/{id}" >>)
                      ELSE t \notin DOMAIN tasks

C2_Witness ==
    /\ step.handler = "draw:deleted"
    /\ Len(step.on.layers) = 2
    /\ Len(IdLayers(step.on.layers)) = 2
    /\ Cardinality(step.on.accepted) = 1
    /\ Count(step.did, "DELETE /api/pois/{id}") = 1

MapUnchanged ==
    /\ pointLayer' = pointLayer
    /\ lineLayer' = lineLayer
    /\ polygonLayer' = polygonLayer
    /\ drawnItems' = drawnItems
    /\ colorIndex' = colorIndex
    /\ view' = view

\* C3: the step in which a POST is found to have failed (the fetch rejected,
\* or a non-2xx status) alerts the failure and does nothing else: the
\* pending drawing, the overlay, the layer groups and the modal are as they
\* were, nothing is cleared and no request is sent.
C3_FailedPostLeavesDrawing ==
    [][ (step'.handler = "submit: POST settled"
           /\ step'.on.outcome \in {"POST network error", "POST non-2xx"})
        => /\ step'.did = << "alert: Failed to create POI" >>
           /\ currentDrawing' = currentDrawing
           /\ modal' = modal
           /\ MapUnchanged
           /\ poiCount' = poiCount
           /\ nTasks' = nTasks
           /\ DOMAIN tasks' = DOMAIN tasks \ {step'.task}
           /\ \A t \in DOMAIN tasks' : tasks'[t] = tasks[t] ]_vars

C3_Witness ==
    /\ step.handler = "submit: POST settled"
    /\ step.on.outcome = "POST non-2xx"
    /\ currentDrawing # Null
    /\ In(drawnItems, currentDrawing)
    /\ modal

\* The properties texts that are not blank and are not JSON.
Unparsable == { << "{", "i", "n", "v", "a", "l", "i", "d" >> }

\* C4: a submit whose properties text is not blank and does not parse sends
\* no request and changes nothing: the pending drawing is still held and in
\* the overlay and the modal is as it was; with a drawing pending, the user
\* is alerted of the invalid JSON.
C4_InvalidJsonAborts ==
    [][ (step'.handler = "submit" /\ step'.on.text \in Unparsable)
        => /\ Len(step'.did) = 1
           /\ currentDrawing # Null
                => step'.did = << "alert: Invalid JSON in properties field" >>
           /\ tasks' = tasks
           /\ currentDrawing' = currentDrawing
           /\ modal' = modal
           /\ MapUnchanged ]_vars

C4_Witness ==
    /\ step.handler = "submit"
    /\ step.on.text \in Unparsable
    /\ step.did = << "alert: Invalid JSON in properties field" >>
    /\ currentDrawing # Null
    /\ In(drawnItems, currentDrawing)
    /\ modal

\* C5: a submit that arrives while no drawing is pending alerts that no
\* geometry is drawn, sends no request and leaves the layer groups, the
\* overlay, the color cursor and the modal as they were.
C5_NoDrawingNoRequest ==
    [][ (step'.handler = "submit" /\ currentDrawing = Null)
        => /\ step'.did = << "alert: No geometry drawn" >>
           /\ tasks' = tasks
           /\ currentDrawing' = Null
           /\ modal' = modal
           /\ MapUnchanged ]_vars

C5_Witness ==
    /\ step.handler = "submit"
    /\ step.did = << "alert: No geometry drawn" >>
    /\ currentDrawing = Null
    /\ drawnItems # <<>>

\* C6: right after the step that finds the POST to have succeeded, the modal
\* is closed, no drawing is pending, the overlay and the layer groups are
\* empty and the reload is awaited; and the success alert is shown only by
\* the step that ends that reload, as its last act, after loadPOIs has set
\* the status text.
C6_SuccessReturnsToIdle ==
    /\ (step.handler = "submit: POST settled"
          /\ step.on.outcome = "POST 2xx json")
       => /\ ~modal
          /\ currentDrawing = Null
          /\ GroupsEmpty
          /\ step.task \in DOMAIN tasks
          /\ tasks[step.task].pc = "fetch GET"
          /\ step.did = << "closeModal", "clearLayers", "GET /api/pois" >>
    /\ In(step.did, "alert: POI created successfully!")
       => /\ step.handler = "loadPOIs: GET settled"
          /\ step.on.caller = "submit"
          /\ Len(step.did) >= 2
          /\ First(step.did, "alert: POI created successfully!") = Len(step.did)
          /\ step.task \notin DOMAIN tasks
    /\ (step.handler = "loadPOIs: GET settled" /\ step.on.caller = "submit")
       => In(step.did, "alert: POI created successfully!")

C6_Witness ==
    /\ step.handler = "loadPOIs: GET settled"
    /\ step.on.caller = "submit"
    /\ step.on.outcome.kind = "GET features"
    /\ Len(drawnItems) = Len(step.on.outcome.features)
    /\ Len(step.on.outcome.features) > 0
    /\ ~modal
    /\ currentDrawing = Null

\* C7: a dismissal of the modal, or a click on its backdrop, while a drawing
\* is pending takes the pending shape out of the overlay, holds no drawing
\* any more, closes the modal and sends no request.
C7_CancelDiscardsDrawing ==
    [][ ((step'.handler = "dismiss"
            \/ (step'.handler = "window.onclick"
                  /\ step'.on.target = "poi-modal"))
         /\ currentDrawing # Null)
        => /\ currentDrawing' = Null
           /\ ~modal'
           /\ ~In(drawnItems', currentDrawing)
           /\ drawnItems' = Remove(drawnItems, currentDrawing)
           /\ tasks' = tasks
           /\ nTasks' = nTasks
           /\ pointLayer' = pointLayer
           /\ lineLayer' = lineLayer
           /\ polygonLayer' = polygonLayer
           /\ colorIndex' = colorIndex ]_vars

C7_Witness ==
    /\ step.handler = "window.onclick"
    /\ step.on.target = "poi-modal"
    /\ In(step.did, "removeLayer")
    /\ currentDrawing = Null
    /\ ~modal
    /\ nDrawn > 0

\* C8: the polygons rendered since the last clear (or since page load) are
\* the polygon group in the order of their rendering; the i-th of them,
\* counted from zero, has the palette color at index i mod 10, and the
\* cursor has advanced by one for each of them.
C8_PaletteCycles ==
    /\ colorIndex = Len(polygonLayer)
    /\ \A i \in 0..(Len(polygonLayer) - 1) :
          polygonLayer[i + 1].color = polygonColors[(i % 10) + 1]

C8_Witness ==
    /\ step.handler = "loadPOIs: GET settled"
    /\ step.on.caller = "submit"
    /\ Len(polygonLayer) > 10
    /\ polygonLayer[11].color = polygonColors[1]
    /\ polygonLayer[10].color = polygonColors[10]
    /\ colorIndex = Len(polygonLayer)

\* The features of a listing that go to the polygon group.
PolygonLike(f) == LayerOf(f) = "polygons"

\* The step just taken is the end of a load that rendered features.
Loaded ==
    /\ step.handler = "loadPOIs: GET settled"
    /\ step.on.outcome.kind = "GET features"
    /\ Len(step.on.outcome.features) > 0

\* The polygons the load of invocation t rendered that are in the group.
RenderedBy(t) == SelectSeq(polygonLayer, LAMBDA shape : shape.by = t)

\* C9, as stated: a clear leaves the cursor at zero, and the load of every
\* reload (after a create or after a delete) renders the k-th polygon-like
\* feature of its listing, counted from zero, in the palette color at index
\* k mod 10.
C9_ReloadColorsFromZero ==
    /\ In(step.did, "clearLayers") => colorIndex = 0
    /\ (Loaded /\ step.on.caller \in {"submit", "deletePOI"})
       => LET listed == SelectSeq(step.on.outcome.features, PolygonLike)
              mine == RenderedBy(step.task)
          IN  /\ Len(mine) = Len(listed)
              /\ \A k \in 0..(Len(listed) - 1) :
                    /\ mine[k + 1].feature = listed[k + 1]
                    /\ mine[k + 1].color = polygonColors[(k % 10) + 1]

\* C9, amended: a clear leaves the cursor at zero and the polygon group
\* empty, and every load renders the k-th polygon-like feature of its
\* listing, counted from zero, in the palette color at index (c + k) mod 10,
\* where c is the number of polygons other loads have rendered since the
\* last clear: k mod 10 when there is none.
C9_ReloadColorsFromCursor ==
    /\ In(step.did, "clearLayers") => (colorIndex = 0 /\ polygonLayer = <<>>)
    /\ Loaded
       => LET listed == SelectSeq(step.on.outcome.features, PolygonLike)
              c == Len(polygonLayer) - Len(listed)
          IN  /\ c >= 0
              /\ \A i \in 1..c : polygonLayer[i].by # step.task
              /\ \A k \in 0..(Len(listed) - 1) :
                    /\ polygonLayer[c + k + 1].by = step.task
                    /\ polygonLayer[c + k + 1].feature = listed[k + 1]
                    /\ polygonLayer[c + k + 1].color
                         = polygonColors[((c + k) % 10) + 1]

C9_Witness ==
    /\ Loaded
    /\ step.on.caller \in {"submit", "deletePOI"}
    /\ Len(RenderedBy(step.task)) > 0
    /\ Len(polygonLayer) > Len(RenderedBy(step.task))
    /\ polygonLayer[1].by # step.task

\* The step just taken is the end of a load whose fetch, or the parse of
\* whose body, failed.
LoadFailed ==
    /\ step.handler = "loadPOIs: GET settled"
    /\ step.on.outcome.kind \in {"GET network error", "GET parse error"}

\* C10, as stated.  Every load is invoked with the layer groups and the
\* overlay empty (at page load, and right after clearLayers in the submit
\* handler and in deletePOI), so the claim says: when a load fails, the
\* layer groups and the overlay are empty.
C10_AsWhenInvoked ==
    /\ In(step.did, "GET /api/pois") => GroupsEmpty
    /\ LoadFailed => GroupsEmpty

\* C10, amended: every load is invoked with the layer groups and the overlay
\* empty; the step in which a load finds its fetch or its parse to have
\* failed sets the status text to "Error loading POIs" and leaves the layer
\* groups, the overlay, the cursor and the view as they were just before
\* it, whatever other handlers did to them since the load was invoked; and
\* the caller resumes after its await as after a load that succeeded.
C10_FailedLoadChangesNothing ==
    /\ [](In(step.did, "GET /api/pois") => GroupsEmpty)
    /\ [][ (step'.handler = "loadPOIs: GET settled"
              /\ step'.on.outcome.kind
                   \in {"GET network error", "GET parse error"})
           => /\ poiCount' = StatusText("Error loading POIs")
              /\ MapUnchanged
              /\ currentDrawing' = currentDrawing
              /\ modal' = modal
              /\ step'.did =
                   << "status: Error loading POIs" >>
                   \o (IF step'.on.caller = "submit"
                         THEN << "alert: POI created successfully!" >>
                         ELSE <<>>)
              /\ DOMAIN tasks' = DOMAIN tasks \ {step'.task}
              /\ nTasks' = nTasks ]_vars

C10_Witness ==
    /\ LoadFailed
    /\ poiCount = StatusText("Error loading POIs")
    /\ polygonLayer # <<>>
    /\ drawnItems # <<>>

\* The outcome of a GET that lists no feature: a body with no features
\* field, or with an empty one.
ListsNothing(outcome) ==
    \/ outcome.kind = "GET no features field"
    \/ (outcome.kind = "GET features" /\ Len(outcome.features) = 0)

\* C11: the step in which a load finds that its response lists no feature
\* sets the count text to "No POIs found in database" and adds no shape to
\* a layer group or to the overlay, and leaves the cursor and the view as
\* they were.
C11_EmptyLoadAddsNothing ==
    [][ (step'.handler = "loadPOIs: GET settled"
           /\ ListsNothing(step'.on.outcome))
        => /\ poiCount' = StatusText("No POIs found in database")
           /\ MapUnchanged
           /\ In(step'.did, "status: No POIs found in database")
           /\ ~In(step'.did, "render")
           /\ ~In(step'.did, "fitBounds") ]_vars

C11_Witness ==
    /\ step.handler = "loadPOIs: GET settled"
    /\ step.on.outcome.kind = "GET features"
    /\ Len(step.on.outcome.features) = 0
    /\ poiCount = StatusText("No POIs found in database")
    /\ polygonLayer # <<>>
    /\ colorIndex > 0
    /\ view # InitialView

\* The group a geom_type tag stands for.
GroupOfTag(tag) ==
    IF tag = "ST_Point" THEN "points"
    ELSE IF tag \in {"ST_LineString", "ST_MultiLineString"} THEN "lines"
    ELSE "polygons"

GroupNames == {"points", "lines", "polygons"}

ShapesOf(group) ==
    IF group = "points" THEN pointLayer
    ELSE IF group = "lines" THEN lineLayer
    ELSE polygonLayer

\* The shapes of a group that the load of invocation t rendered for the
\* i-th feature of its listing.
RenderedFor(group, t, i) ==
    { k \in DOMAIN ShapesOf(group) :
        ShapesOf(group)[k].by = t /\ ShapesOf(group)[k].n = i }

\* C12: at the end of a load, each feature of its listing has exactly one
\* shape of that load in the group its geom_type tag stands for (points for
\* ST_Point, lines for ST_LineString and ST_MultiLineString, polygons for
\* every other tag) and none in the two other groups; the simplified script
\* puts the feature in its point list if the tag is ST_Point and in its
\* polygon list otherwise, and in one list only.
C12_DispatchByTag ==
    Loaded
    => LET fs == step.on.outcome.features
           simplified == classifySimplified(fs)
       IN  \A i \in DOMAIN fs :
             /\ \A g \in GroupNames :
                  /\ Cardinality(RenderedFor(g, step.task, i))
                       = IF g = GroupOfTag(fs[i].geom_type) THEN 1 ELSE 0
                  /\ \A k \in RenderedFor(g, step.task, i) :
                       ShapesOf(g)[k].feature = fs[i]
             /\ Count(simplified.points, fs[i])
                  = IF fs[i].geom_type = "ST_Point" THEN 1 ELSE 0
             /\ Count(simplified.polygons, fs[i])
                  = IF fs[i].geom_type = "ST_Point" THEN 0 ELSE 1

C12_Witness ==
    /\ Loaded
    /\ \A g \in GroupNames :
         \E i \in DOMAIN step.on.outcome.features :
            RenderedFor(g, step.task, i) # {}
    /\ \E i \in DOMAIN step.on.outcome.features :
         /\ step.on.outcome.features[i].geom_type = "ST_GeometryCollection"
         /\ RenderedFor("polygons", step.task, i) # {}
    /\ \E i \in DOMAIN step.on.outcome.features :
         /\ step.on.outcome.features[i].geom_type = "ST_MultiLineString"
         /\ RenderedFor("lines", step.task, i) # {}

\* The step just taken found a request to have failed.
FailureFound(s) ==
    \/ /\ s.handler = "deletePOI: DELETE settled"
       /\ s.on.outcome \in {"DELETE network error", "DELETE non-2xx"}
    \/ /\ s.handler = "submit: POST settled"
       /\ s.on.outcome \in {"POST network error", "POST non-2xx",
                            "POST 2xx unparsable body"}
    \/ /\ s.handler = "loadPOIs: GET settled"
       /\ s.on.outcome.kind \in {"GET network error", "GET parse error"}

RequestsMade ==
    { "GET /api/pois", "POST /api/pois", "DELETE /api/pois/{id}" }

\* C13: no invocation sends a request of one kind twice; and the step that
\* finds a DELETE, a POST or a GET to have failed tells the user (an alert,
\* or the status text for a load), sends no request, clears nothing, leaves
\* the layer groups and the overlay as they were and ends its invocation,
\* the other invocations staying as they are: the failure is handled in the
\* catch block of the function that awaited the request.
C13_FailuresAreTerminal ==
    /\ [](\A t \in DOMAIN tasks : \A r \in RequestsMade :
             Count(tasks[t].requests, r) <= 1)
    /\ [][ FailureFound(step')
           => /\ \A r \in RequestsMade : ~In(step'.did, r)
              /\ ~In(step'.did, "clearLayers")
              /\ step'.did[1] =
                   (IF step'.handler = "deletePOI: DELETE settled"
                      THEN "alert: Failed to delete POI"
                    ELSE IF step'.handler = "submit: POST settled"
                      THEN "alert: Failed to create POI"
                    ELSE "status: Error loading POIs")
              /\ MapUnchanged
              /\ nTasks' = nTasks
              /\ DOMAIN tasks' = DOMAIN tasks \ {step'.task}
              /\ \A t \in DOMAIN tasks' : tasks'[t] = tasks[t] ]_vars

C13_Witness ==
    /\ step.handler = "deletePOI: DELETE settled"
    /\ step.on.outcome = "DELETE non-2xx"
    /\ step.did = << "alert: Failed to delete POI" >>
    /\ step.task \notin DOMAIN tasks
    /\ polygonLayer # <<>>

\* The lines of one kind in a popup.
PopupLines(popup, kind) == SelectSeq(popup, LAMBDA l : l.line = kind)

NotGiven(v) == v = Absent \/ v = ""

\* C14: the popup of every rendered shape, whatever optional properties its
\* feature lacks, starts with one heading, which is the name, or "Unnamed
\* POI" when the name is not given; has a type line and an address line
\* exactly when the field is given; always has one id line and one
\* geometry-kind line; has the additional-properties block exactly when the
\* extra mapping is there and is not empty; and has no other line.
C14_PopupOmitsAbsent ==
    \A g \in GroupNames : \A k \in DOMAIN ShapesOf(g) :
      LET f == ShapesOf(g)[k].feature
          p == popupOf(ShapesOf(g)[k])
          noExtra == f.properties = NoMapping \/ f.properties.keys = {}
      IN  /\ p[1] = [line |-> "h3",
                     text |-> IF NotGiven(f.name) THEN "Unnamed POI" ELSE f.name]
          /\ Len(PopupLines(p, "h3")) = 1
          /\ PopupLines(p, "Type")
               = IF NotGiven(f.poi_type) THEN <<>>
                 ELSE << [line |-> "Type", text |-> f.poi_type] >>
          /\ PopupLines(p, "Address")
               = IF NotGiven(f.address) THEN <<>>
                 ELSE << [line |-> "Address", text |-> f.address] >>
          /\ PopupLines(p, "ID") = << [line |-> "ID", id |-> f.id] >>
          /\ PopupLines(p, "Geometry")
               = << [line |-> "Geometry", text |-> f.geom_type] >>
          /\ PopupLines(p, "Additional Properties")
               = IF noExtra THEN <<>>
                 ELSE << [line |-> "Additional Properties",
                          keys |-> f.properties.keys] >>
          /\ Len(p) = 3 + (IF NotGiven(f.poi_type) THEN 0 ELSE 1)
                        + (IF NotGiven(f.address) THEN 0 ELSE 1)
                        + (IF noExtra THEN 0 ELSE 1)

C14_Witness ==
    /\ Loaded
    /\ Len(polygonLayer) = 1
    /\ polygonLayer[1].feature.name = Absent
    /\ polygonLayer[1].feature.poi_type = Absent
    /\ polygonLayer[1].feature.address = "1 Main St"
    /\ polygonLayer[1].feature.properties = Mapping({})
    /\ Len(popupOf(polygonLayer[1])) = 4

\* The shapes of the overlay that have no backend feature attached.
Unsaved == SelectSeq(drawnItems, LAMBDA layer : layer.feature = NoFeature)

\* C15, as stated: the overlay holds at most one shape with no backend
\* feature attached, and that shape, if there is one, is the pending
\* drawing.
C15_AtMostOneUnsaved ==
    /\ Len(Unsaved) <= 1
    /\ Len(Unsaved) = 1 => Unsaved[1] = currentDrawing

\* The shapes of the three layer groups, and the shapes of the overlay that
\* were rendered for a feature.
AllRendered == pointLayer \o lineLayer \o polygonLayer
Saved == SelectSeq(drawnItems, LAMBDA layer : layer.feature # NoFeature)

\* The step just taken is the end of the load of a reload, and no request is
\* in flight.
ReloadCompleted ==
    /\ step.handler = "loadPOIs: GET settled"
    /\ step.on.caller \in {"submit", "deletePOI"}

NoDuplicate(shapes) ==
    \A i, j \in DOMAIN shapes :
        i # j => shapes[i].feature.id # shapes[j].feature.id

SameShapes(a, b) ==
    /\ Len(a) = Len(b)
    /\ \A i \in DOMAIN a : In(b, a[i])

\* C16, as stated: when a reload has completed and no request is in flight,
\* the layer groups and the overlay, the pending drawing apart, hold the
\* shapes of one response only, one per feature, none twice.
C16_RebuiltFromOneResponse ==
    (ReloadCompleted /\ DOMAIN tasks = {})
    => /\ \A i \in DOMAIN AllRendered : AllRendered[i].by = step.task
       /\ NoDuplicate(AllRendered)
       /\ NoDuplicate(Saved)
       /\ SameShapes(AllRendered, Saved)
       /\ Len(AllRendered) = Len(step.on.outcome.features)

\* C16, amended: every clear empties the layer groups and the overlay; the
\* end of every load leaves, in the groups and in the overlay, exactly one
\* shape of that load per feature of its response; and when a reload has
\* completed and no other load has rendered a shape since the reload's
\* clear, the groups and the overlay, the pending drawing apart, hold
\* exactly these shapes, none twice.
C16_RebuiltPerLoad ==
    /\ In(step.did, "clearLayers") => GroupsEmpty
    /\ step.handler = "loadPOIs: GET settled"
       => LET fs == step.on.outcome.features
              mine == SelectSeq(AllRendered, LAMBDA x : x.by = step.task)
              kept == SelectSeq(Saved, LAMBDA x : x.by = step.task)
          IN  /\ Len(mine) = Len(fs)
              /\ \A i \in DOMAIN fs :
                    \E k \in DOMAIN mine :
                        mine[k].n = i /\ mine[k].feature = fs[i]
              /\ SameShapes(mine, kept)
              /\ (ReloadCompleted /\ Len(mine) = Len(AllRendered))
                 => /\ NoDuplicate(AllRendered)
                    /\ NoDuplicate(Saved)
                    /\ SameShapes(AllRendered, Saved)

C16_Witness ==
    /\ ReloadCompleted
    /\ DOMAIN tasks = {}
    /\ step.on.caller = "deletePOI"
    /\ Len(step.on.outcome.features) > 1
    /\ Len(AllRendered) = Len(step.on.outcome.features)
    /\ SameShapes(AllRendered, Saved)

\* The invocations whose GET is in flight.
Loading(ts) == { t \in DOMAIN ts : ts[t].pc = "fetch GET" }

\* C17: no load waits for another or cancels one.  The step that issues a
\* GET leaves every GET in flight in flight, and the step that ends a load
\* adds one shape per feature of its response to what is on the map,
\* whatever other loads have rendered and whatever GET is still in flight,
\* and leaves the other loads in flight.
C17_LoadsNotExclusive ==
    [][ /\ In(step'.did, "GET /api/pois")
           => Loading(tasks') = Loading(tasks) \cup {step'.task}
        /\ step'.handler = "loadPOIs: GET settled"
           => /\ Loading(tasks') = Loading(tasks) \ {step'.task}
              /\ \A t \in Loading(tasks') : tasks'[t] = tasks[t]
              /\ Len(AllRendered')
                   = Len(AllRendered) + Len(step'.on.outcome.features)
              /\ \A i \in DOMAIN AllRendered : In(AllRendered', AllRendered[i])
      ]_vars

\* Two reloads have overlapped and responses have been applied out of
\* order: the response of the GET of the page load, issued first, has just
\* been applied after that of a reload, whose shapes are on the map, while
\* the GET of another reload, issued before that response arrived (its clear
\* would have removed the shapes), is still in flight.
C17_Witness ==
    /\ Loaded
    /\ step.on.caller = "loadPOIs"
    /\ step.task = 1
    /\ \E t \in Loading(tasks) :
         /\ tasks[t].kind \in {"submit", "deletePOI"}
         /\ \E i \in DOMAIN AllRendered :
              AllRendered[i].by \notin {1, t}
    /\ \E i \in DOMAIN AllRendered : AllRendered[i].by = 1

\* Two deletes in quick succession: the GETs of two delete-triggered reloads
\* are in flight at once.
TwoDeleteReloadsInFlight ==
    \E t, u \in Loading(tasks) :
        t # u /\ tasks[t].kind = "deletePOI" /\ tasks[u].kind = "deletePOI"

\* C18, as stated: whenever a drawing is pending, it is a shape of the
\* overlay.
C18_PendingIsInOverlay ==
    currentDrawing # Null => In(drawnItems, currentDrawing)

\* A delete-triggered clear has just run while a creation is pending.
ClearedWhilePending ==
    /\ step.handler = "deletePOI: DELETE settled"
    /\ In(step.did, "clearLayers")
    /\ currentDrawing # Null
    /\ modal

\* The invocations of the submit handler whose POST is in flight.
Posting(ts) == { t \in DOMAIN ts : ts[t].pc = "fetch POST" }

\* C19, as stated: no two POSTs in flight carry the geometry of the same
\* drawn shape.
C19_OnePostPerShape ==
    \A t, u \in Posting(tasks) :
        t # u => tasks[t].arg.geometry # tasks[u].arg.geometry

\* C19, amended: every submit that finds a drawing pending and a properties
\* text that is blank or parses sends a POST carrying the geometry of that
\* drawing, whatever POST is in flight, and leaves the drawing pending and
\* the POSTs in flight untouched, so that a further submit sends the same
\* geometry again.
C19_EverySubmitPosts ==
    [][ (step'.handler = "submit"
           /\ currentDrawing # Null
           /\ step'.on.text \notin Unparsable)
        => /\ step'.did = << "POST /api/pois" >>
           /\ Posting(tasks') = Posting(tasks) \cup {step'.task}
           /\ step'.task \notin DOMAIN tasks
           /\ tasks'[step'.task].arg.geometry = currentDrawing.n
           /\ \A t \in DOMAIN tasks : tasks'[t] = tasks[t]
           /\ currentDrawing' = currentDrawing
           /\ modal' = modal ]_vars

C19_Witness ==
    /\ step.handler = "submit"
    /\ step.did = << "POST /api/pois" >>
    /\ \E t \in Posting(tasks) :
         /\ t # step.task
         /\ tasks[t].arg.geometry = tasks[step.task].arg.geometry
    /\ currentDrawing # Null

\* The step is a dismissal of the modal or a click on its backdrop.
Cancels(s) ==
    \/ s.handler = "dismiss"
    \/ (s.handler = "window.onclick" /\ s.on.target = "poi-modal")

\* The step just taken found the POST of the only submit of the run to have
\* succeeded after the drawing it carries was cancelled: with one submit,
\* only closeModal can have taken the pending drawing away.
CancelledThenCreated ==
    /\ step.handler = "submit: POST settled"
    /\ step.on.outcome = "POST 2xx json"
    /\ step.on.pending = Null
    /\ nTasks = 2

\* C20, as stated, for a run with one submit: when the POST succeeds after
\* its drawing was cancelled, nothing is cleared and no reload is started.
C20_CancelledNotReported ==
    CancelledThenCreated
    => /\ ~In(step.did, "clearLayers")
       /\ ~In(step.did, "GET /api/pois")
       /\ step.task \notin DOMAIN tasks

\* C20, amended: a cancel aborts no request, the POSTs in flight stay in
\* flight; the step that finds a POST to have succeeded clears and starts
\* the reload whether or not the drawing is still pending; and the step
\* that ends the reload of a submit always alerts the success.
C20_CancelAbortsNothing ==
    /\ [][ Cancels(step') => (tasks' = tasks /\ nTasks' = nTasks) ]_vars
    /\ [][ (step'.handler = "submit: POST settled"
              /\ step'.on.outcome = "POST 2xx json")
           => /\ step'.did = << "closeModal", "clearLayers", "GET /api/pois" >>
              /\ step'.task \in Loading(tasks')
              /\ step'.on.pending = currentDrawing ]_vars
    /\ []((step.handler = "loadPOIs: GET settled" /\ step.on.caller = "submit")
            => step.did[Len(step.did)] = "alert: POI created successfully!")

C20_Witness ==
    /\ CancelledThenCreated
    /\ In(step.did, "clearLayers")
    /\ step.task \in Loading(tasks)
    /\ ~modal

====
